---- MODULE Spec2Model ----
(***************************************************************************)
(* The WhatsApp session server ("FULL CODE v3", src/unnamed/part_000       *)
(* lines 679-952): the lifecycle flags, the timers the handlers arm and    *)
(* cancel, and the asynchronous continuations of the handlers (QR          *)
(* rendering, the awaited initial roster sync, the awaited destroy of      *)
(* safeDestroy).  Node runs every callback to its next await, so each      *)
(* action below is one such run.  Timers carry no clock: a pending timer   *)
(* may fire at any later step.  Spec explores the session lifecycle,       *)
(* SpecRelay one ready cycle with its unread drain and the live message    *)
(* handler, SpecClassify the message relay over every message.             *)
(***************************************************************************)
EXTENDS Naturals, Sequences, FiniteSets, TLC

\* Bound on what the environment has outstanding at once: qr signals whose
\* rendering has not called back, ready handlers suspended in their sync (and
\* the intervals they left unreferenced), manual commands in flight (and
\* their restart timers).
MaxOutstanding == 2

\* Longest message body, in symbols
MaxBody == 3

\* Messages in the chat store, whether they arrived before the ready signal
\* or during the ready cycle
MaxMsgs == 2

NULL == "null"
DataUrl == "data-url"
NoHandle == 0

Who == {"disconnect", "clear-session", "watchdog"}
Commands == {"disconnect", "clear-session"}
Stages == {"destroy1", "wait", "destroy2"}
InitKinds == {"reconnect", "restart", "recovery"}
Signals == {"qr", "authenticated", "auth_failure", "disconnected", "ready"}

\* A text is a sequence of symbols: whitespace characters and words.
Whitespace == {" ", "\t"}
Symbols == Whitespace \cup {"Hello"}
Texts == UNION {[1..n -> Symbols] : n \in 0..MaxBody}

\* msg.type
MessageTypes == {"chat", "image", "audio", "video", "document", "ptt",
                 "sticker", "location"}

\* client.getChats(), in the order it lists them: a direct chat and a group
ChatOrder == <<"A@c.us", "G@g.us">>
ChatIds == {ChatOrder[i] : i \in 1..Len(ChatOrder)}
Own == "me@c.us"

VARIABLES
    isConnected, isClientReady, isAuthenticated, lastQrCode,
    reconnecting, connectionTimeout, syncInterval, authRecoveryTriggered,
    listeners,      \* the client.on(...) handlers are still attached
    timeouts,       \* pending 60 s watchdog timers (handles)
    intervals,      \* active 2 min setInterval(syncAllContacts) timers (handles)
    initTimers,     \* pending setTimeout(() => client.initialize()) per origin
    qrPending,      \* QRCode.toDataURL calls that have not called back
    readySync,      \* ready handlers suspended in `await syncAllContacts()`
    teardown,       \* safeDestroy calls in flight, per caller and stage
    lastHandled,    \* the last signal, command or watchdog callback that ran
    repeated,       \* it was the same as the one that ran before it
    dropped,        \* the last signal emitted to a client without handlers
                    \* since the last completed command
    chats,          \* the client's chat store: unreadCount and messages per chat
    drain,          \* where the ready handler stands in its unread drain
    listing,        \* `chats` of the drain, from the chat its loop has reached
    fetched,        \* `messages` of the drain, after the message being posted
    calls,          \* the webhook POSTs issued, in order
    processed,      \* the messages handed to processMessageAndSendToDjango
    seen,           \* the chats chat.sendSeen() was called on, in order
    sync,           \* the syncAllContacts() call under way, or the last one
    trigger,        \* the last GET /whatsapp-sync-contacts request
    broadcast,      \* the POST /relance-pub request under way, or the last one
    reminder,       \* the last GET /send-relance-payer request and its sends
    query           \* the last answer of a status or diagnostics query

lifeVars == <<isConnected, isClientReady, isAuthenticated, lastQrCode,
              reconnecting, connectionTimeout, syncInterval,
              authRecoveryTriggered, listeners, timeouts, intervals, initTimers,
              qrPending, readySync, teardown, lastHandled, repeated, dropped>>
relayVars == <<chats, drain, listing, fetched, calls, processed, seen>>
apiVars == <<sync, trigger, broadcast, reminder, query>>
vars == <<lifeVars, relayVars, apiVars>>

flagVars == <<isConnected, isClientReady, isAuthenticated, lastQrCode>>
timerVars == <<connectionTimeout, syncInterval, timeouts, intervals>>

----------------------------------------------------------------------------
\* Helpers

\* setTimeout/setInterval return a handle no live timer or variable holds.
UsedHandles == timeouts \cup intervals \cup {connectionTimeout, syncInterval}
FreshHandle ==
    CHOOSE n \in 1..(Cardinality(UsedHandles) + 1) :
        /\ n \notin UsedHandles
        /\ \A m \in 1..(n - 1) : m \in UsedHandles

Handled(e) ==
    /\ lastHandled' = e
    /\ repeated' = (lastHandled = e)

Inc(f, k) == [f EXCEPT ![k] = @ + 1]
Dec(f, k) == [f EXCEPT ![k] = @ - 1]

\* res.status(500).json({ error }): the answer of either command when
\* safeDestroy threw
Failed(w) == "error"

InFlight(w) == teardown[<<w, "destroy1">>] + teardown[<<w, "wait">>]
                 + teardown[<<w, "destroy2">>]

Outstanding ==
    qrPending
      + readySync + Cardinality(intervals \ {syncInterval})
      + InFlight("disconnect") + InFlight("clear-session") + initTimers["restart"]

\* resetFlags()
resetFlags ==
    /\ isConnected' = FALSE
    /\ isClientReady' = FALSE
    /\ isAuthenticated' = FALSE
    /\ lastQrCode' = NULL
    /\ authRecoveryTriggered' = FALSE
    /\ timeouts' = timeouts \ {connectionTimeout}
    /\ connectionTimeout' = NoHandle
    /\ intervals' = intervals \ {syncInterval}
    /\ syncInterval' = NoHandle

\* GET /whatsapp-status
Status ==
    [connected |-> isConnected, authenticated |-> isAuthenticated,
     hasQR |-> lastQrCode # NULL, qr |-> lastQrCode]

----------------------------------------------------------------------------
\* No roster sync, broadcast or payment reminder has been requested yet.
NoSync == [stage |-> "idle", listing |-> <<>>, posts |-> <<>>, failed |-> FALSE]
NoBroadcast ==
    [stage |-> "idle", request |-> [none |-> TRUE], sent |-> <<>>,
     failed |-> <<>>, attempts |-> <<>>, response |-> [status |-> 0]]
NoQuery == [kind |-> "none"]
NoReminder ==
    [stage |-> "idle", ack |-> [status |-> 0], entries |-> <<>>,
     attempts |-> <<>>, fetchFailed |-> FALSE]

\* The state after start-up, the chat store left open
Started ==
    /\ isConnected = FALSE
    /\ isClientReady = FALSE
    /\ isAuthenticated = FALSE
    /\ lastQrCode = NULL
    /\ reconnecting = FALSE
    /\ connectionTimeout = NoHandle
    /\ syncInterval = NoHandle
    /\ authRecoveryTriggered = FALSE
    /\ listeners = TRUE
    /\ timeouts = {}
    /\ intervals = {}
    /\ initTimers = [k \in InitKinds |-> 0]
    /\ qrPending = 0
    /\ readySync = 0
    /\ teardown = [p \in Who \X Stages |-> 0]
    /\ lastHandled = "none"
    /\ repeated = FALSE
    /\ dropped = "none"
    /\ drain = "none"
    /\ listing = <<>>
    /\ fetched = <<>>
    /\ calls = <<>>
    /\ processed = {}
    /\ seen = <<>>
    /\ sync = NoSync
    /\ trigger = "none"
    /\ broadcast = NoBroadcast
    /\ reminder = NoReminder
    /\ query = NoQuery

\* The session lifecycle is explored over an account without chats: no
\* message arrives and the unread drain of the ready handler finds nothing.
NoChats == [c \in ChatIds |-> [isGroup |-> c = "G@g.us", unreadCount |-> 0,
                                messages |-> <<>>]]

Init ==
    /\ Started
    /\ chats = NoChats

----------------------------------------------------------------------------
\* Lifecycle signals

\* client.on('qr'): only starts the rendering; the flags change in the callback.
OnQr ==
    /\ listeners
    /\ Outstanding < MaxOutstanding
    /\ qrPending' = qrPending + 1
    /\ Handled("qr")
    /\ UNCHANGED <<flagVars, timerVars, reconnecting, authRecoveryTriggered,
                   listeners, initTimers, readySync, teardown>>
    /\ UNCHANGED <<dropped, relayVars, apiVars>>

\* The callback of QRCode.toDataURL(qr, (err, url) => ...)
QrRendered(ok) ==
    /\ qrPending > 0
    /\ qrPending' = qrPending - 1
    /\ IF ok
         THEN /\ lastQrCode' = DataUrl
              /\ isConnected' = FALSE
              /\ isAuthenticated' = FALSE
         ELSE /\ lastQrCode' = NULL
              /\ UNCHANGED <<isConnected, isAuthenticated>>
    /\ UNCHANGED <<isClientReady, timerVars, reconnecting, authRecoveryTriggered,
                   listeners, initTimers, readySync, teardown,
                   lastHandled, repeated>>
    /\ UNCHANGED <<dropped, relayVars, apiVars>>

\* A plausible slip: arming a new watchdog without clearing the old one.
OnAuthenticatedNoClear ==
    /\ listeners
    /\ isAuthenticated' = TRUE
    /\ authRecoveryTriggered' = FALSE
    /\ timeouts' = timeouts \cup {FreshHandle}
    /\ connectionTimeout' = FreshHandle
    /\ Handled("authenticated")
    /\ UNCHANGED <<isConnected, isClientReady, lastQrCode, reconnecting,
                   syncInterval, intervals, listeners, initTimers, qrPending,
                   readySync, teardown>>
    /\ UNCHANGED <<dropped, relayVars, apiVars>>

\* client.on('authenticated')
OnAuthenticated ==
    /\ listeners
    /\ isAuthenticated' = TRUE
    /\ authRecoveryTriggered' = FALSE
    /\ timeouts' = (timeouts \ {connectionTimeout}) \cup {FreshHandle}
    /\ connectionTimeout' = FreshHandle
    /\ Handled("authenticated")
    /\ UNCHANGED <<isConnected, isClientReady, lastQrCode, reconnecting,
                   syncInterval, intervals, listeners, initTimers, qrPending,
                   readySync, teardown>>
    /\ UNCHANGED <<dropped, relayVars, apiVars>>

\* client.on('auth_failure')
OnAuthFailure ==
    /\ listeners
    /\ resetFlags
    /\ Handled("auth_failure")
    /\ UNCHANGED <<reconnecting, listeners, initTimers, qrPending, readySync,
                   teardown>>
    /\ UNCHANGED <<dropped, relayVars, apiVars>>

\* A plausible slip: scheduling the reconnect without the reconnecting guard.
OnDisconnectedNoGuard ==
    /\ listeners
    /\ resetFlags
    /\ reconnecting' = TRUE
    /\ initTimers' = Inc(initTimers, "reconnect")
    /\ Handled("disconnected")
    /\ UNCHANGED <<listeners, qrPending, readySync, teardown>>
    /\ UNCHANGED <<dropped, relayVars, apiVars>>

\* client.on('disconnected')
OnDisconnected ==
    /\ listeners
    /\ resetFlags
    /\ IF ~reconnecting
         THEN /\ reconnecting' = TRUE
              /\ initTimers' = Inc(initTimers, "reconnect")
         ELSE UNCHANGED <<reconnecting, initTimers>>
    /\ Handled("disconnected")
    /\ UNCHANGED <<listeners, qrPending, readySync, teardown>>
    /\ UNCHANGED <<dropped, relayVars, apiVars>>

\* client.on('ready'), up to its call of syncAllContacts()
ReadyStarted ==
    /\ listeners
    /\ Outstanding < MaxOutstanding
    /\ isConnected' = TRUE
    /\ isClientReady' = TRUE
    /\ isAuthenticated' = TRUE
    /\ lastQrCode' = NULL
    /\ timeouts' = timeouts \ {connectionTimeout}
    /\ connectionTimeout' = NoHandle
    /\ authRecoveryTriggered' = FALSE
    /\ intervals' = intervals \ {syncInterval}
    /\ readySync' = readySync + 1
    /\ Handled("ready")
    /\ UNCHANGED <<syncInterval, reconnecting, listeners, initTimers, qrPending,
                   teardown, dropped>>

\* client.on('ready'), up to `await syncAllContacts()`
OnReady ==
    /\ ReadyStarted
    /\ UNCHANGED <<relayVars, apiVars>>

\* client.on('ready'), resumed after the awaited initial sync: the recurring
\* sync is scheduled here.  The unread drain that follows and the ticks of
\* the interval read the session state but never write it.
ReadyResumed ==
    /\ readySync > 0
    /\ readySync' = readySync - 1
    /\ intervals' = intervals \cup {FreshHandle}
    /\ syncInterval' = FreshHandle
    /\ UNCHANGED <<flagVars, connectionTimeout, timeouts, reconnecting,
                   authRecoveryTriggered, listeners, initTimers, qrPending,
                   teardown, lastHandled, repeated, dropped>>

\* The resumed ready handler over an account without chats: getChats()
\* lists nothing and the drain loop has no chat to visit.
ReadySyncDone ==
    /\ ReadyResumed
    /\ UNCHANGED <<relayVars, apiVars>>

----------------------------------------------------------------------------
\* Timers

\* The 60 s callback armed by client.on('authenticated')
FireWatchdog(t) ==
    /\ t \in timeouts
    /\ timeouts' = timeouts \ {t}
    /\ IF ~isClientReady /\ ~authRecoveryTriggered
         THEN /\ authRecoveryTriggered' = TRUE
              /\ listeners' = FALSE
              /\ teardown' = Inc(teardown, <<"watchdog", "destroy1">>)
         ELSE UNCHANGED <<authRecoveryTriggered, listeners, teardown>>
    /\ Handled("watchdog")
    /\ UNCHANGED <<flagVars, connectionTimeout, syncInterval, intervals,
                   reconnecting, initTimers, qrPending, readySync>>
    /\ UNCHANGED <<dropped, relayVars, apiVars>>

\* A plausible slip: a reconnect callback that leaves the flag set.
FireInitKeepsFlag(k) ==
    /\ initTimers[k] > 0
    /\ initTimers' = Dec(initTimers, k)
    /\ UNCHANGED <<flagVars, timerVars, reconnecting, authRecoveryTriggered,
                   listeners, qrPending, readySync, teardown, lastHandled,
                   repeated>>
    /\ UNCHANGED <<dropped, relayVars, apiVars>>

\* setTimeout(() => client.initialize(), ...) fires
FireInit(k) ==
    /\ initTimers[k] > 0
    /\ initTimers' = Dec(initTimers, k)
    /\ reconnecting' = IF k = "reconnect" THEN FALSE ELSE reconnecting
    /\ UNCHANGED <<flagVars, timerVars, authRecoveryTriggered, listeners,
                   qrPending, readySync, teardown, lastHandled, repeated>>
    /\ UNCHANGED <<dropped, relayVars, apiVars>>

----------------------------------------------------------------------------
\* safeDestroy and its callers

\* POST /whatsapp-disconnect and POST /whatsapp-clear-session, up to the
\* first `await client.destroy()` inside safeDestroy: removeAllListeners()
\* detaches every client.on(...) handler for good.  The session directory
\* clear-session removes first belongs to the external client's LocalAuth
\* store and is not part of the state.
CommandStart(w) ==
    /\ w \in Commands
    /\ Outstanding < MaxOutstanding
    /\ listeners' = FALSE
    /\ teardown' = Inc(teardown, <<w, "destroy1">>)
    /\ UNCHANGED <<flagVars, timerVars, reconnecting, authRecoveryTriggered,
                   initTimers, qrPending, readySync, lastHandled, repeated>>
    /\ UNCHANGED <<dropped, relayVars, apiVars>>

\* What runs after `await safeDestroy()` returned normally
AfterDestroy(w) ==
    IF w \in Commands
      THEN /\ resetFlags
           /\ initTimers' = Inc(initTimers, "restart")
           /\ Handled(w)
           /\ dropped' = "none"
           /\ UNCHANGED <<reconnecting, listeners, qrPending, readySync>>
      ELSE /\ initTimers' = Inc(initTimers, "recovery")
           /\ UNCHANGED <<flagVars, timerVars, reconnecting,
                          authRecoveryTriggered, listeners, qrPending, readySync,
                          lastHandled, repeated, dropped>>

\* client.destroy() resolves (first attempt or the retry)
DestroyOk(w, s) ==
    /\ s \in {"destroy1", "destroy2"}
    /\ teardown[<<w, s>>] > 0
    /\ teardown' = Dec(teardown, <<w, s>>)
    /\ AfterDestroy(w)
    /\ UNCHANGED <<relayVars, apiVars>>

\* The first client.destroy() rejects: safeDestroy sleeps 2 s
DestroyFailed(w) ==
    /\ teardown[<<w, "destroy1">>] > 0
    /\ teardown' = Inc(Dec(teardown, <<w, "destroy1">>), <<w, "wait">>)
    /\ UNCHANGED <<flagVars, timerVars, reconnecting, authRecoveryTriggered,
                   listeners, initTimers, qrPending, readySync,
                   lastHandled, repeated>>
    /\ UNCHANGED <<dropped, relayVars, apiVars>>

\* After the 2 s sleep: removeAllListeners() and the second client.destroy()
RetryDestroy(w) ==
    /\ teardown[<<w, "wait">>] > 0
    /\ teardown' = Inc(Dec(teardown, <<w, "wait">>), <<w, "destroy2">>)
    /\ listeners' = FALSE
    /\ UNCHANGED <<flagVars, timerVars, reconnecting, authRecoveryTriggered,
                   initTimers, qrPending, readySync, lastHandled, repeated>>
    /\ UNCHANGED <<dropped, relayVars, apiVars>>

\* A plausible slip: restarting in a `finally` instead of after the await,
\* so that a failed teardown still resets the flags and schedules initialize().
RetryFailedRestarts(w) ==
    /\ teardown[<<w, "destroy2">>] > 0
    /\ teardown' = Dec(teardown, <<w, "destroy2">>)
    /\ IF w \in Commands
         THEN /\ resetFlags
              /\ initTimers' = Inc(initTimers, "restart")
              /\ Handled(Failed(w))
         ELSE UNCHANGED <<flagVars, timerVars, authRecoveryTriggered,
                          initTimers, lastHandled, repeated>>
    /\ UNCHANGED <<reconnecting, listeners, qrPending, readySync, dropped,
                   relayVars, apiVars>>

\* The retry rejects too: safeDestroy throws into its caller.  A command
\* answers 500 {error} from its catch block; the watchdog callback has no
\* catch and the rejection is lost.
RetryFailed(w) ==
    /\ teardown[<<w, "destroy2">>] > 0
    /\ teardown' = Dec(teardown, <<w, "destroy2">>)
    /\ IF w \in Commands
         THEN Handled(Failed(w))
         ELSE UNCHANGED <<lastHandled, repeated>>
    /\ UNCHANGED <<flagVars, timerVars, reconnecting, authRecoveryTriggered,
                   listeners, initTimers, qrPending, readySync, dropped,
                   relayVars, apiVars>>

\* The client emits a lifecycle signal after removeAllListeners(): no handler
\* runs.  A client that is being destroyed or awaits initialize() emits none.
ClientSettled ==
    /\ \A w \in Who : InFlight(w) = 0
    /\ \A k \in InitKinds : initTimers[k] = 0

Unheard(sig) ==
    /\ ~listeners
    /\ ClientSettled
    /\ dropped # sig
    /\ dropped' = sig
    /\ UNCHANGED <<flagVars, timerVars, reconnecting, authRecoveryTriggered,
                   listeners, initTimers, qrPending, readySync, teardown,
                   lastHandled, repeated, relayVars, apiVars>>

----------------------------------------------------------------------------
Next ==
    \/ OnQr
    \/ \E ok \in BOOLEAN : QrRendered(ok)
    \/ OnAuthenticated
    \/ OnAuthFailure
    \/ OnDisconnected
    \/ OnReady
    \/ ReadySyncDone
    \/ \E t \in timeouts : FireWatchdog(t)
    \/ \E k \in InitKinds : FireInit(k)
    \/ \E w \in Commands : CommandStart(w)
    \/ \E w \in Who, s \in Stages : DestroyOk(w, s)
    \/ \E w \in Who : DestroyFailed(w)
    \/ \E w \in Who : RetryDestroy(w)
    \/ \E w \in Who : RetryFailed(w)
    \/ \E sig \in Signals : Unheard(sig)

Spec == Init /\ [][Next]_vars

\* A timer that is pending fires: nothing cancels the 5 s reconnect timer.
SpecFair == Spec /\ WF_vars(FireInit("reconnect"))

----------------------------------------------------------------------------
\* The message relay

\* String.prototype.trim()
RECURSIVE trimStart(_)
trimStart(s) ==
    IF s # <<>> /\ Head(s) \in Whitespace THEN trimStart(Tail(s)) ELSE s

RECURSIVE trimEnd(_)
trimEnd(s) ==
    IF s # <<>> /\ s[Len(s)] \in Whitespace
      THEN trimEnd(SubSeq(s, 1, Len(s) - 1))
      ELSE s

\* A plausible slip: relaying the body as received.
untrimmed(s) == s

trim(s) == trimEnd(trimStart(s))

typeMap ==
    [image |-> <<"Image">>, audio |-> <<"Audio">>, video |-> <<"Vidéo">>,
     document |-> <<"Document">>, ptt |-> <<"Voice Message">>,
     sticker |-> <<"Sticker">>]

\* A plausible slip: relaying the caption of a media message when it has one.
processMessageRelayingCaption(msg) ==
    IF msg.fromMe
      THEN <<>>
      ELSE IF msg.hasMedia
             THEN <<[sender_number |-> msg.from,
                     message_body |->
                         IF trim(msg.body) # <<>> THEN trim(msg.body)
                         ELSE IF msg.type \in DOMAIN typeMap
                                THEN typeMap[msg.type]
                                ELSE <<"Other media">>]>>
             ELSE LET text == trim(msg.body)
                  IN  IF text = <<>>
                        THEN <<>>
                        ELSE <<[sender_number |-> msg.from,
                                message_body |-> text]>>

\* A plausible slip: testing fromMe in the text branch only.
processMessageSkippingOwnText(msg) ==
    IF msg.hasMedia
      THEN <<[sender_number |-> msg.from,
              message_body |-> IF msg.type \in DOMAIN typeMap
                                 THEN typeMap[msg.type]
                                 ELSE <<"Other media">>]>>
      ELSE LET text == trim(msg.body)
           IN  IF msg.fromMe \/ text = <<>>
                 THEN <<>>
                 ELSE <<[sender_number |-> msg.from, message_body |-> text]>>

\* processMessageAndSendToDjango(msg), up to its await of axios.post: the
\* POSTs it issues, none where it returns early.  A message without a body
\* has the empty one (msg.body || '').
processMessageAndSendToDjango(msg) ==
    IF msg.fromMe
      THEN <<>>
      ELSE IF msg.hasMedia
             THEN <<[sender_number |-> msg.from,
                     message_body |-> IF msg.type \in DOMAIN typeMap
                                        THEN typeMap[msg.type]
                                        ELSE <<"Other media">>]>>
             ELSE LET text == trim(msg.body)
                  IN  IF text = <<>>
                        THEN <<>>
                        ELSE <<[sender_number |-> msg.from,
                                message_body |-> text]>>

\* The POSTs of one invocation, with the message, its chat and the caller;
\* `failed` once axios.post has rejected
Sent(msg, c, via) ==
    LET posts == processMessageAndSendToDjango(msg)
    IN  [i \in 1..Len(posts) |->
            [post |-> posts[i], msg |-> msg, chat |-> c, via |-> via,
             failed |-> FALSE]]

\* processMessageAndSendToDjango after its await of axios.post: a rejection
\* (network error or non-2xx) is logged in the catch block and nothing else.
Rejected(i) == [calls EXCEPT ![i].failed = TRUE]

\* client.on('message', processMessageAndSendToDjango)
OnMessage(msg, c) ==
    /\ calls' = calls \o Sent(msg, c, "live")
    /\ processed' = processed \cup {[msg |-> msg, chat |-> c, via |-> "live"]}

----------------------------------------------------------------------------
\* The unread drain of the ready handler

\* The messages the store holds before the ready signal and those that arrive
\* during the ready cycle are of these kinds.
MsgKinds ==
    { [fromMe |-> FALSE, hasMedia |-> FALSE, type |-> "chat", body |-> <<"Hello">>],
      [fromMe |-> FALSE, hasMedia |-> FALSE, type |-> "chat", body |-> <<" ">>],
      [fromMe |-> FALSE, hasMedia |-> TRUE, type |-> "image", body |-> <<"Hello">>],
      [fromMe |-> TRUE, hasMedia |-> FALSE, type |-> "chat", body |-> <<"Hello">>],
      [fromMe |-> TRUE, hasMedia |-> TRUE, type |-> "image", body |-> <<>>] }

KindSeqs == UNION {[1..n -> MsgKinds] : n \in 0..MaxMsgs}

\* The n-th message of the store, of kind k, in chat c
Message(k, c, n) ==
    [id |-> n, from |-> IF k.fromMe THEN Own ELSE c, fromMe |-> k.fromMe,
     hasMedia |-> k.hasMedia, type |-> k.type, body |-> k.body]

StoreSize == Len(chats[ChatOrder[1]].messages) + Len(chats[ChatOrder[2]].messages)

\* A plausible slip: fetching the chat's messages without the limit.
fetchAll(all, n) == all

\* chat.fetchMessages({ limit: n }): the n most recent messages, oldest first
fetchMessages(all, n) ==
    IF n >= Len(all) THEN all ELSE SubSeq(all, Len(all) - n + 1, Len(all))

\* client.getChats(): the Chat objects carry the unreadCount of the listing
getChats ==
    [i \in 1..Len(ChatOrder) |->
        [id |-> ChatOrder[i], isGroup |-> chats[ChatOrder[i]].isGroup,
         unreadCount |-> chats[ChatOrder[i]].unreadCount]]

\* `for (const chat of chats)` over the chats still to visit: the first with
\* `chat.unreadCount > 0` has its messages fetched.
RECURSIVE SkipRead(_)
SkipRead(l) ==
    IF l = <<>> \/ Head(l).unreadCount > 0 THEN l ELSE SkipRead(Tail(l))

NextChat(l) ==
    /\ listing' = SkipRead(l)
    /\ drain' = IF SkipRead(l) = <<>> THEN "done" ELSE "fetchMessages"

\* The leading messages processMessageAndSendToDjango returns from without
\* a POST: awaiting it then yields to no other callback.
RECURSIVE Unposted(_)
Unposted(ms) ==
    IF ms = <<>> \/ processMessageAndSendToDjango(Head(ms)) # <<>>
      THEN <<>>
      ELSE <<Head(ms)>> \o Unposted(Tail(ms))

\* The POSTs of processMessageAndSendToDjango over all of ms
RECURSIVE SentAll(_, _)
SentAll(ms, c) ==
    IF ms = <<>> THEN <<>>
    ELSE Sent(Head(ms), c, "drain") \o SentAll(Tail(ms), c)

\* A plausible slip: the relays of a chat started without awaiting them
\* (messages.forEach(processMessageAndSendToDjango)), then chat.sendSeen().
RelayLoopNotAwaited(ms, log) ==
    LET c == Head(listing).id
    IN  /\ processed' = processed \cup
              {[msg |-> ms[i], chat |-> c, via |-> "drain"] : i \in 1..Len(ms)}
        /\ calls' = log \o SentAll(ms, c)
        /\ fetched' = <<>>
        /\ drain' = "sendSeen"
        /\ seen' = Append(seen, Head(listing))

\* `for (const msg of messages) await processMessageAndSendToDjango(msg)`
\* over the messages still to go, up to the next POST; `await chat.sendSeen()`
\* when none is left.
RelayLoop(ms, log) ==
    LET c == Head(listing).id
        run == SubSeq(ms, 1, IF Len(Unposted(ms)) < Len(ms)
                               THEN Len(Unposted(ms)) + 1
                               ELSE Len(ms))
    IN  /\ processed' = processed \cup
              {[msg |-> run[i], chat |-> c, via |-> "drain"] : i \in 1..Len(run)}
        /\ IF Len(Unposted(ms)) < Len(ms)
             THEN /\ calls' = log \o Sent(run[Len(run)], c, "drain")
                  /\ fetched' = SubSeq(ms, Len(run) + 1, Len(ms))
                  /\ drain' = "post"
                  /\ seen' = seen
             ELSE /\ calls' = log
                  /\ fetched' = <<>>
                  /\ drain' = "sendSeen"
                  /\ seen' = Append(seen, Head(listing))

\* client.on('ready') of the one ready cycle, up to `await syncAllContacts()`
ReadyCycle ==
    /\ lastHandled = "none"
    /\ OnReady

\* client.on('ready'), resumed after the awaited initial sync, up to
\* `await client.getChats()`
DrainStart ==
    /\ ReadyResumed
    /\ drain' = "getChats"
    /\ UNCHANGED <<apiVars, chats, listing, fetched, calls, processed, seen>>

\* getChats() resolves
GetChatsDone ==
    /\ drain = "getChats"
    /\ NextChat(getChats)
    /\ UNCHANGED <<lifeVars, apiVars, chats, fetched, calls, processed, seen>>

\* chat.fetchMessages() resolves
FetchDone ==
    /\ drain = "fetchMessages"
    /\ RelayLoop(fetchMessages(chats[Head(listing).id].messages,
                               Head(listing).unreadCount), calls)
    /\ UNCHANGED <<lifeVars, apiVars, chats, listing>>

\* The POST the drain awaits: the last one it issued
Awaited ==
    CHOOSE i \in 1..Len(calls) :
        /\ calls[i].via = "drain"
        /\ \A j \in (i + 1)..Len(calls) : calls[j].via # "drain"

\* The POST of the drain settles (the response or the error is only logged)
\* and the loop over the fetched messages goes on.
PostDone(ok) ==
    /\ drain = "post"
    /\ RelayLoop(fetched, IF ok THEN calls ELSE Rejected(Awaited))
    /\ UNCHANGED <<lifeVars, apiVars, chats, listing>>

\* The POST of a live message is rejected: the message handler has no
\* continuation but the log line.
LivePostFailed(i) ==
    /\ calls[i].via = "live"
    /\ ~calls[i].failed
    /\ calls' = Rejected(i)
    /\ UNCHANGED <<lifeVars, apiVars, chats, drain, listing, fetched, processed, seen>>

\* chat.sendSeen() resolves: the store has the chat read
SeenDone ==
    /\ drain = "sendSeen"
    /\ chats' = [chats EXCEPT ![Head(listing).id].unreadCount = 0]
    /\ NextChat(Tail(listing))
    /\ UNCHANGED <<lifeVars, apiVars, fetched, calls, processed, seen>>

\* A plausible slip: a catch that handles the failure as a disconnection.
DrainRejectedResets(at) ==
    /\ at \in {"getChats", "fetchMessages", "sendSeen"}
    /\ drain = at
    /\ drain' = "failed"
    /\ resetFlags
    /\ UNCHANGED <<reconnecting, listeners, initTimers, qrPending, readySync,
                   teardown, lastHandled, repeated, dropped>>
    /\ UNCHANGED <<apiVars, chats, listing, fetched, calls, processed, seen>>

\* client.getChats(), chat.fetchMessages() or chat.sendSeen() rejects: the
\* catch around the drain logs and the ready handler ends
DrainRejected(at) ==
    /\ at \in {"getChats", "fetchMessages", "sendSeen"}
    /\ drain = at
    /\ drain' = "failed"
    /\ UNCHANGED <<lifeVars, apiVars, chats, listing, fetched, calls, processed, seen>>

\* A message of kind k arrives in chat c once the client is up: the store
\* appends it (an incoming one counts as unread) and the client emits
\* `message`.
LiveMessage(c, k) ==
    /\ listeners
    /\ lastHandled = "ready"
    /\ StoreSize < MaxMsgs
    /\ chats' = [chats EXCEPT
                   ![c].messages = Append(@, Message(k, c, StoreSize + 1)),
                   ![c].unreadCount = IF k.fromMe THEN @ ELSE @ + 1]
    /\ OnMessage(Message(k, c, StoreSize + 1), c)
    /\ UNCHANGED <<lifeVars, apiVars, drain, listing, fetched, seen>>

\* The store at the ready signal: the messages of both chats, numbered in
\* store order, and how many of each chat's latest are unread
Store(ka, ua, kg, ug) ==
    [c \in ChatIds |->
        IF c = ChatOrder[1]
          THEN [isGroup |-> FALSE, unreadCount |-> ua,
                messages |-> [i \in 1..Len(ka) |-> Message(ka[i], c, i)]]
          ELSE [isGroup |-> TRUE, unreadCount |-> ug,
                messages |-> [i \in 1..Len(kg) |->
                                 Message(kg[i], c, Len(ka) + i)]]]

InitRelay ==
    /\ Started
    /\ \E ka \in KindSeqs, kg \in KindSeqs :
         /\ Len(ka) + Len(kg) <= MaxMsgs
         /\ \E ua \in 0..Len(ka), ug \in 0..Len(kg) :
              chats = Store(ka, ua, kg, ug)

NextRelay ==
    \/ ReadyCycle
    \/ DrainStart
    \/ GetChatsDone
    \/ FetchDone
    \/ \E ok \in BOOLEAN : PostDone(ok)
    \/ SeenDone
    \/ \E c \in ChatIds, k \in MsgKinds : LiveMessage(c, k)
    \/ \E i \in 1..Len(calls) : LivePostFailed(i)
    \/ \E at \in {"getChats", "fetchMessages", "sendSeen"} : DrainRejected(at)

SpecRelay == InitRelay /\ [][NextRelay]_vars

----------------------------------------------------------------------------
\* The relay over every message

Msgs ==
    [id : {1}, from : ChatIds \cup {Own}, fromMe : BOOLEAN, hasMedia : BOOLEAN,
     type : MessageTypes, body : Texts]

\* The client emits `message` with msg
Deliver(msg) ==
    /\ processed = {}
    /\ OnMessage(msg, ChatOrder[1])
    /\ UNCHANGED <<lifeVars, apiVars, chats, drain, listing, fetched, seen>>

NextClassify == \E msg \in Msgs : Deliver(msg)

SpecClassify == Init /\ [][NextClassify]_vars

----------------------------------------------------------------------------
\* The roster sync (syncAllContacts) and its manual trigger

MaxListing == 2

\* The chats of the account as client.getChats() lists them for the sync: two
\* direct chats and a group
RosterChats ==
    { [id |-> [user |-> "A", server |-> "c.us"], isGroup |-> FALSE],
      [id |-> [user |-> "B", server |-> "c.us"], isGroup |-> FALSE],
      [id |-> [user |-> "G", server |-> "g.us"], isGroup |-> TRUE] }

\* The listings client.getChats() may resolve with: any chats, in any order
Listings ==
    { l \in UNION { [1..n -> RosterChats] : n \in 0..MaxListing } :
        \A i, j \in DOMAIN l : l[i] = l[j] => i = j }

\* chats.map(c => ({ number: c.id.user, direction: 'sync' })), no chat left out
RECURSIVE contactsOfAll(_)
contactsOfAll(l) ==
    IF l = <<>> THEN <<>>
    ELSE <<[number |-> Head(l).id.user, direction |-> "sync"]>>
            \o contactsOfAll(Tail(l))

\* chats.filter(c => !c.isGroup).map(c => ({ number: c.id.user, direction: 'sync' }))
RECURSIVE contacts(_)
contacts(l) ==
    IF l = <<>> THEN <<>>
    ELSE IF Head(l).isGroup THEN contacts(Tail(l))
    ELSE <<[number |-> Head(l).id.user, direction |-> "sync"]>>
            \o contacts(Tail(l))

\* No request is being served by a roster sync and none is running
SyncIdle == sync.stage \in {"idle", "done"} /\ trigger # "syncing"

\* syncAllContacts() up to its `await client.getChats()`
syncAllContacts ==
    sync' = [stage |-> "getChats", listing |-> <<>>, posts |-> <<>>,
             failed |-> FALSE]

\* A plausible slip: syncAllContacts() rethrows from its catch, and the trigger
\* route answers a failed sync with an error
SyncReturnsReporting(s) ==
    /\ sync' = [s EXCEPT !.stage = "done"]
    /\ trigger' = IF trigger = "syncing"
                  THEN (IF s.failed THEN "error" ELSE "completed")
                  ELSE trigger

\* syncAllContacts() returns; the trigger request that awaited it answers
SyncReturns(s) ==
    /\ sync' = [s EXCEPT !.stage = "done"]
    /\ trigger' = IF trigger = "syncing" THEN "completed" ELSE trigger

\* A tick of setInterval(syncAllContacts, ...), from any interval still live
SyncTick ==
    /\ intervals # {}
    /\ SyncIdle
    /\ syncAllContacts
    /\ UNCHANGED <<lifeVars, relayVars, trigger, broadcast, reminder, query>>

\* GET /whatsapp-sync-contacts
SyncTrigger ==
    /\ SyncIdle
    /\ IF ~isClientReady
       THEN trigger' = "not-ready" /\ sync' = sync
       ELSE trigger' = "syncing" /\ syncAllContacts
    /\ UNCHANGED <<lifeVars, relayVars, broadcast, reminder, query>>

\* client.getChats() resolves with l; a POST is issued even for no contact
SyncListedAlwaysPosts(l) ==
    /\ sync.stage = "getChats"
    /\ sync' = [sync EXCEPT !.stage = "post", !.listing = l,
                            !.posts = <<contacts(l)>>]
    /\ UNCHANGED <<lifeVars, relayVars, trigger, broadcast, reminder, query>>

\* client.getChats() resolves with l
SyncListed(l) ==
    /\ sync.stage = "getChats"
    /\ IF Len(contacts(l)) > 0
       THEN /\ sync' = [sync EXCEPT !.stage = "post", !.listing = l,
                                    !.posts = <<contacts(l)>>]
            /\ UNCHANGED trigger
       ELSE SyncReturns([sync EXCEPT !.listing = l])
    /\ UNCHANGED <<lifeVars, relayVars, broadcast, reminder, query>>

\* client.getChats() rejects: the catch logs
SyncListFailed ==
    /\ sync.stage = "getChats"
    /\ SyncReturns([sync EXCEPT !.failed = TRUE])
    /\ UNCHANGED <<lifeVars, relayVars, broadcast, reminder, query>>

\* The POST to the backend resolves (ok) or rejects: the catch logs
SyncPosted(ok) ==
    /\ sync.stage = "post"
    /\ SyncReturns([sync EXCEPT !.failed = ~ok])
    /\ UNCHANGED <<lifeVars, relayVars, broadcast, reminder, query>>

NextSync ==
    \/ OnQr
    \/ \E ok \in BOOLEAN : QrRendered(ok)
    \/ OnAuthFailure
    \/ OnDisconnected
    \/ FireInit("reconnect")
    \/ OnReady
    \/ ReadySyncDone
    \/ SyncTick
    \/ SyncTrigger
    \/ \E l \in Listings : SyncListed(l)
    \/ SyncListFailed
    \/ \E ok \in BOOLEAN : SyncPosted(ok)

SpecSync == Init /\ [][NextSync]_vars

----------------------------------------------------------------------------
\* The broadcast (POST /relance-pub)

MaxContacts == 2

Digits == {"0", "1", "2", "3", "4", "5", "6", "7", "8", "9"}

IsDigit(ch) == ch \in Digits

\* "@c.us"
Suffix == <<"@", "c", ".", "u", "s">>

\* Raw recipient identifiers, character by character: "0612345678",
\* "+212612345678@c.us" and "06 1"
Recipients ==
    { <<"0", "6", "1", "2", "3", "4", "5", "6", "7", "8">>,
      <<"+", "2", "1", "2", "6", "1", "2", "3", "4", "5", "6", "7", "8">>
          \o Suffix,
      <<"0", "6", " ", "1">> }

\* s.endsWith(suffix)
endsWith(s, suffix) ==
    /\ Len(s) >= Len(suffix)
    /\ SubSeq(s, Len(s) - Len(suffix) + 1, Len(s)) = suffix

\* The suffix appended if absent, nothing stripped
phoneOfUnstripped(number) ==
    IF ~endsWith(number, Suffix) THEN number \o Suffix ELSE number

\* A plausible slip: a pattern that spares the characters of the suffix, and
\* the suffix appended in every case
phoneOfSparingSuffix(number) ==
    LET spared(ch) == ch \in Digits \cup {"@", "c", ".", "u", "s"}
    IN  SelectSeq(number, spared) \o Suffix

\* let phone = number.replace(/\D/g, "");
\* if (!phone.endsWith("@c.us")) phone = `${phone}@c.us`;
phoneOf(number) ==
    LET phone == SelectSeq(number, IsDigit)
    IN  IF ~endsWith(phone, Suffix) THEN phone \o Suffix ELSE phone

\* The values of req.body.contacts: arrays of strings, and an object with
\* items and a length that is not an array
ContactsValues ==
    { [isArray |-> TRUE, items |-> l] :
        l \in UNION { [1..n -> Recipients] : n \in 0..MaxContacts } }
    \cup { [isArray |-> FALSE, items |-> <<r>>] : r \in Recipients }

\* The values of req.body.message: "", " ", "Hi", "Hi "
BroadcastMessages == { <<>>, <<" ">>, <<"Hi">>, <<"Hi", " ">> }

\* The request bodies: message and contacts may each be missing
BroadcastBodies ==
    [message : BroadcastMessages, contacts : ContactsValues]
    \cup [message : BroadcastMessages]
    \cup [contacts : ContactsValues]

\* !message?.trim(), with no trim
BroadcastRejectedUntrimmed(body) ==
    \/ "message" \notin DOMAIN body
    \/ body.message = <<>>
    \/ "contacts" \notin DOMAIN body
    \/ ~body.contacts.isArray
    \/ Len(body.contacts.items) = 0

\* !message?.trim() || !Array.isArray(contacts) || contacts.length === 0
BroadcastRejected(body) ==
    \/ "message" \notin DOMAIN body
    \/ trim(body.message) = <<>>
    \/ "contacts" \notin DOMAIN body
    \/ ~body.contacts.isArray
    \/ Len(body.contacts.items) = 0

\* client.sendMessage(phone, message) is called and awaited
Send(number, message) ==
    [to |-> phoneOf(number), message |-> message, outcome |-> "pending"]

\* POST /relance-pub with body, up to the 400 answer or the first await
BroadcastRequest(body) ==
    /\ broadcast.stage \in {"idle", "answered"}
    /\ IF BroadcastRejected(body)
       THEN broadcast' =
                [NoBroadcast EXCEPT
                    !.stage = "answered",
                    !.request = body,
                    !.response = [status |-> 400,
                                  message |-> "Message and contacts required"]]
       ELSE broadcast' =
                [NoBroadcast EXCEPT
                    !.stage = "sending",
                    !.request = body,
                    !.attempts = <<Send(body.contacts.items[1], body.message)>>]
    /\ UNCHANGED <<lifeVars, relayVars, sync, trigger, reminder, query>>

\* The recipient of the send awaited, and whether the loop has another one
Recipient == broadcast.request.contacts.items[Len(broadcast.attempts)]
MoreRecipients ==
    Len(broadcast.attempts) < Len(broadcast.request.contacts.items)

\* The awaited send resolves (ok) or rejects: entry is pushed to sent or to
\* failed, then the loop goes on if there is more, else the answer is given
BroadcastResumed(ok, entry, more) ==
    /\ broadcast.stage = "sending"
    /\ LET i == Len(broadcast.attempts)
           sent == IF ok THEN Append(broadcast.sent, entry)
                   ELSE broadcast.sent
           failed == IF ok THEN broadcast.failed
                     ELSE Append(broadcast.failed, entry)
           settled == [broadcast.attempts EXCEPT
                          ![i].outcome = IF ok THEN "ok" ELSE "error"]
       IN  IF more
           THEN broadcast' =
                    [broadcast EXCEPT
                        !.sent = sent,
                        !.failed = failed,
                        !.attempts =
                            Append(settled,
                                   Send(broadcast.request.contacts.items[i + 1],
                                        broadcast.request.message))]
           ELSE broadcast' =
                    [broadcast EXCEPT
                        !.stage = "answered",
                        !.sent = sent,
                        !.failed = failed,
                        !.attempts = settled,
                        !.response =
                            [status |-> 200,
                             message |-> "Broadcast finished",
                             sentCount |-> Len(sent),
                             failedCount |-> Len(failed),
                             sent |-> sent,
                             failed |-> failed]]
    /\ UNCHANGED <<lifeVars, relayVars, sync, trigger, reminder, query>>

\* A loop that a rejected send leaves
BroadcastAbortsOnFailure(ok) ==
    BroadcastResumed(ok, Recipient, ok /\ MoreRecipients)

\* A loop that pushes the address the message was sent to
BroadcastListsAddress(ok) ==
    BroadcastResumed(ok, phoneOf(Recipient), MoreRecipients)

\* await client.sendMessage(phone, message) resolves or rejects
BroadcastSendDone(ok) ==
    BroadcastResumed(ok, Recipient, MoreRecipients)

NextBroadcast ==
    \/ \E body \in BroadcastBodies : BroadcastRequest(body)
    \/ \E ok \in BOOLEAN : BroadcastSendDone(ok)

SpecBroadcast == Init /\ [][NextBroadcast]_vars

----------------------------------------------------------------------------
\* The normalisation of the broadcast over every short identifier

MaxRaw == 3

\* Raw identifiers: strings of up to MaxRaw characters, digits or not
RawChars == {"0", "7", "+", "a"}
RawIds == UNION { [1..n -> RawChars] : n \in 0..MaxRaw }

\* POST /relance-pub with the one recipient r
BroadcastTo(r) ==
    BroadcastRequest([message |-> <<"Hi">>,
                      contacts |-> [isArray |-> TRUE, items |-> <<r>>]])

\* POST /relance-pub with the address the last broadcast sent to as recipient
BroadcastAgain ==
    /\ broadcast.stage = "answered"
    /\ BroadcastTo(broadcast.attempts[1].to)

NextNormalize ==
    \/ \E r \in RawIds : BroadcastTo(r)
    \/ BroadcastAgain
    \/ \E ok \in BOOLEAN : BroadcastSendDone(ok)

SpecNormalize == Init /\ [][NextNormalize]_vars

----------------------------------------------------------------------------
\* The payment reminders (GET /send-relance-payer, sendRelancePayer)

MaxEntries == 3

\* Entries of the list the backend answers with
ReminderEntries ==
    { [client_phone |-> <<"+", "2", "1", "2", " ", "6", "1">>,
       client_name |-> "Ali", balance_remaining |-> "100",
       tour_title |-> "Merzouga"],
      [client_phone |-> <<"0", "6", "2">>,
       client_name |-> "Sara", balance_remaining |-> "250",
       tour_title |-> "Chefchaouen"] }

ReminderLists == UNION { [1..n -> ReminderEntries] : n \in 0..MaxEntries }

\* client.sendMessage(`${phone}@c.us`, msg) for the entry c, awaited
Remind(c) ==
    [to |-> SelectSeq(c.client_phone, IsDigit) \o Suffix,
     message |-> <<"Bonjour ", c.client_name, ", il vous reste ",
                   c.balance_remaining, " MAD à payer pour : ", c.tour_title,
                   ". Merci de régulariser.">>,
     outcome |-> "pending"]

\* GET /send-relance-payer: sendRelancePayer() runs up to its await of
\* axios.get, then the handler answers
ReminderTrigger ==
    /\ reminder.stage \in {"idle", "done"}
    /\ reminder' = [NoReminder EXCEPT
                       !.stage = "fetching",
                       !.ack = [status |-> 200,
                                body |-> "Payment reminders triggered"]]
    /\ UNCHANGED <<lifeVars, relayVars, sync, trigger, broadcast, query>>

\* axios.get resolves with the list l
ReminderFetched(l) ==
    /\ reminder.stage = "fetching"
    /\ reminder' = [reminder EXCEPT
                       !.stage = IF l = <<>> THEN "done" ELSE "sending",
                       !.entries = l,
                       !.attempts = IF l = <<>> THEN <<>> ELSE <<Remind(l[1])>>]
    /\ UNCHANGED <<lifeVars, relayVars, sync, trigger, broadcast, query>>

\* axios.get rejects: the outer catch logs
ReminderFetchFailed ==
    /\ reminder.stage = "fetching"
    /\ reminder' = [reminder EXCEPT !.stage = "done", !.fetchFailed = TRUE]
    /\ UNCHANGED <<lifeVars, relayVars, sync, trigger, broadcast, query>>

\* The awaited send settles; the loop goes on if more, else the task ends
ReminderResumed(ok, more) ==
    /\ reminder.stage = "sending"
    /\ LET i == Len(reminder.attempts)
           settled == [reminder.attempts EXCEPT
                          ![i].outcome = IF ok THEN "ok" ELSE "error"]
       IN  reminder' =
               IF more
               THEN [reminder EXCEPT
                        !.attempts = Append(settled,
                                            Remind(reminder.entries[i + 1]))]
               ELSE [reminder EXCEPT !.stage = "done", !.attempts = settled]
    /\ UNCHANGED <<lifeVars, relayVars, sync, trigger, broadcast, query>>

MoreEntries == Len(reminder.attempts) < Len(reminder.entries)

\* A loop whose sends have no try of their own: a rejected send ends the task
ReminderAbortsOnFailure(ok) == ReminderResumed(ok, ok /\ MoreEntries)

\* await client.sendMessage(...) resolves, or rejects and the inner catch logs
ReminderSendDone(ok) == ReminderResumed(ok, MoreEntries)

NextReminder ==
    \/ ReminderTrigger
    \/ \E l \in ReminderLists : ReminderFetched(l)
    \/ ReminderFetchFailed
    \/ \E ok \in BOOLEAN : ReminderSendDone(ok)

SpecReminder == Init /\ [][NextReminder]_vars

----------------------------------------------------------------------------
\* The status and diagnostics queries, and every component at once

\* GET /whatsapp-status, which also gives up the QR code it returns
StatusQueryTakesQr ==
    /\ query' = [kind |-> "status", answer |-> Status]
    /\ lastQrCode' = NULL
    /\ UNCHANGED <<isConnected, isClientReady, isAuthenticated, reconnecting,
                   authRecoveryTriggered, timerVars, listeners, initTimers,
                   qrPending,
                   readySync, teardown, lastHandled, repeated, dropped,
                   relayVars, sync, trigger, broadcast, reminder>>

\* GET /whatsapp-status
StatusQuery ==
    /\ query' = [kind |-> "status", answer |-> Status]
    /\ UNCHANGED <<lifeVars, relayVars, sync, trigger, broadcast, reminder>>

\* GET /whatsapp-diagnose up to `await client.getState()`
DiagnoseStart ==
    /\ query.kind # "diagnosing"
    /\ query' = [kind |-> "diagnosing"]
    /\ UNCHANGED <<lifeVars, relayVars, sync, trigger, broadcast, reminder>>

\* client.getState() resolves (ok) or rejects: the flags are read then
DiagnoseDone(ok) ==
    /\ query.kind = "diagnosing"
    /\ query' = [kind |-> "diagnose",
                 status |-> IF ok THEN 200 ELSE 500,
                 isConnected |-> isConnected,
                 isAuthenticated |-> isAuthenticated,
                 isClientReady |-> isClientReady,
                 lastQrCode |-> lastQrCode # NULL,
                 clientState |-> IF ok THEN "CONNECTED" ELSE "error"]
    /\ UNCHANGED <<lifeVars, relayVars, sync, trigger, broadcast, reminder>>

\* The steps of the session lifecycle taken here
LifecycleStep ==
    \/ OnQr
    \/ \E ok \in BOOLEAN : QrRendered(ok)
    \/ OnAuthFailure
    \/ OnDisconnected
    \/ FireInit("reconnect")
    \/ OnReady
    \/ ReadySyncDone

\* The inputs the other components are given here: a text message of the
\* direct chat, a listing with no chat or with one direct chat, a broadcast
\* without contacts or to one recipient, a reminder list of at most one entry
FrameMsgs ==
    { [id |-> 1, from |-> ChatOrder[1], fromMe |-> FALSE, hasMedia |-> FALSE,
       type |-> "chat", body |-> <<"Hello">>] }
FrameListings ==
    { <<>>, <<[id |-> [user |-> "A", server |-> "c.us"], isGroup |-> FALSE]>> }
FrameBodies ==
    { [message |-> <<"Hi">>],
      [message |-> <<"Hi">>,
       contacts |-> [isArray |-> TRUE, items |-> << <<"0", "6", " ", "1">> >>]] }
FrameLists ==
    { <<>>,
      <<[client_phone |-> <<"0", "6", "2">>, client_name |-> "Sara",
         balance_remaining |-> "250", tour_title |-> "Chefchaouen"]>> }

\* The steps of the relay
RelayStep == \E msg \in FrameMsgs : Deliver(msg)

\* The steps of the roster sync and its trigger
SyncStep ==
    \/ SyncTick
    \/ SyncTrigger
    \/ \E l \in FrameListings : SyncListed(l)
    \/ SyncListFailed
    \/ \E ok \in BOOLEAN : SyncPosted(ok)

\* The steps of the broadcast
BroadcastStep ==
    \/ \E body \in FrameBodies : BroadcastRequest(body)
    \/ \E ok \in BOOLEAN : BroadcastSendDone(ok)

\* The steps of the payment reminders
ReminderStep ==
    \/ ReminderTrigger
    \/ \E l \in FrameLists : ReminderFetched(l)
    \/ ReminderFetchFailed
    \/ \E ok \in BOOLEAN : ReminderSendDone(ok)

\* The steps of the queries
QueryStep ==
    \/ StatusQuery
    \/ DiagnoseStart
    \/ \E ok \in BOOLEAN : DiagnoseDone(ok)

\* The components other than the lifecycle share no variable; a run takes the
\* steps of one of them, interleaved in every way with the lifecycle's.
NoRelay == processed = {}
NoRoster == sync = NoSync /\ trigger = "none"
NoAnswer == query = NoQuery

NextFrame ==
    \/ LifecycleStep
    \/ (NoRoster /\ broadcast = NoBroadcast /\ reminder = NoReminder
          /\ NoAnswer /\ RelayStep)
    \/ (NoRelay /\ broadcast = NoBroadcast /\ reminder = NoReminder
          /\ NoAnswer /\ SyncStep)
    \/ (NoRelay /\ NoRoster /\ reminder = NoReminder /\ NoAnswer
          /\ BroadcastStep)
    \/ (NoRelay /\ NoRoster /\ broadcast = NoBroadcast /\ NoAnswer
          /\ ReminderStep)
    \/ (NoRelay /\ NoRoster /\ broadcast = NoBroadcast
          /\ reminder = NoReminder /\ QueryStep)

SpecFrame == Init /\ [][NextFrame]_vars

----------------------------------------------------------------------------
\* The ready handler with its initial roster sync and its drain

\* client.on('ready') of the one ready cycle, up to `await client.getChats()`
\* inside the syncAllContacts() it awaits
ReadyWithSync ==
    /\ lastHandled = "none"
    /\ ReadyStarted
    /\ syncAllContacts
    /\ UNCHANGED <<relayVars, trigger, broadcast, reminder, query>>

\* syncAllContacts() returns into the ready handler: setInterval(...), then
\* the drain up to `await client.getChats()`
InitialSyncReturns(s) ==
    /\ sync' = [s EXCEPT !.stage = "done"]
    /\ ReadyResumed
    /\ drain' = "getChats"
    /\ UNCHANGED <<trigger, broadcast, reminder, query, chats, listing,
                   fetched, calls, processed, seen>>

\* A plausible slip: syncAllContacts() without its try/catch, so that the
\* rejection ends the ready handler that awaits it.
InitialSyncThrows(s) ==
    /\ sync' = [s EXCEPT !.stage = "done"]
    /\ readySync' = readySync - 1
    /\ UNCHANGED <<flagVars, timerVars, reconnecting, authRecoveryTriggered,
                   listeners, initTimers, qrPending, teardown, lastHandled,
                   repeated, dropped>>
    /\ UNCHANGED <<relayVars, trigger, broadcast, reminder, query>>

\* getChats() or the POST of syncAllContacts() rejected: its catch logs and
\* the function returns
InitialSyncFailed(s) == InitialSyncReturns(s)

\* client.getChats() of the initial sync resolves with l
InitialSyncListed(l) ==
    /\ readySync > 0
    /\ sync.stage = "getChats"
    /\ IF Len(contacts(l)) > 0
       THEN /\ sync' = [sync EXCEPT !.stage = "post", !.listing = l,
                                    !.posts = <<contacts(l)>>]
            /\ UNCHANGED <<lifeVars, relayVars, trigger, broadcast, reminder,
                           query>>
       ELSE InitialSyncReturns([sync EXCEPT !.listing = l])

\* client.getChats() of the initial sync rejects
InitialSyncListFailed ==
    /\ readySync > 0
    /\ sync.stage = "getChats"
    /\ InitialSyncFailed([sync EXCEPT !.failed = TRUE])

\* The POST of the initial sync resolves (ok) or rejects
InitialSyncPosted(ok) ==
    /\ readySync > 0
    /\ sync.stage = "post"
    /\ IF ok THEN InitialSyncReturns(sync)
       ELSE InitialSyncFailed([sync EXCEPT !.failed = TRUE])

NextReady ==
    \/ ReadyWithSync
    \/ \E l \in FrameListings : InitialSyncListed(l)
    \/ InitialSyncListFailed
    \/ \E ok \in BOOLEAN : InitialSyncPosted(ok)
    \/ GetChatsDone
    \/ FetchDone
    \/ \E ok \in BOOLEAN : PostDone(ok)
    \/ SeenDone

SpecReady == InitRelay /\ [][NextReady]_vars

----------------------------------------------------------------------------
\* The message handler in every phase of the session

\* A text, a blank text, a picture and a text of the account itself
GateMsgs ==
    { [id |-> 1, from |-> ChatOrder[1], fromMe |-> FALSE, hasMedia |-> FALSE,
       type |-> "chat", body |-> <<" ", "Hello">>],
      [id |-> 1, from |-> ChatOrder[1], fromMe |-> FALSE, hasMedia |-> FALSE,
       type |-> "chat", body |-> <<" ">>],
      [id |-> 1, from |-> ChatOrder[1], fromMe |-> FALSE, hasMedia |-> TRUE,
       type |-> "image", body |-> <<>>],
      [id |-> 1, from |-> Own, fromMe |-> TRUE, hasMedia |-> FALSE,
       type |-> "chat", body |-> <<"Hello">>] }

\* A plausible slip: a message handler that relays only when the client is
\* ready.
MessageEventWhenReady(msg) ==
    /\ listeners
    /\ processed = {}
    /\ processed' = {[msg |-> msg, chat |-> ChatOrder[1], via |-> "live"]}
    /\ calls' = IF isClientReady
                THEN calls \o Sent(msg, ChatOrder[1], "live")
                ELSE calls
    /\ UNCHANGED <<lifeVars, apiVars, chats, drain, listing, fetched, seen>>

\* The client emits `message` with msg while the handlers are attached
MessageEvent(msg) ==
    /\ listeners
    /\ Deliver(msg)

NextGate ==
    \/ LifecycleStep
    \/ \E msg \in GateMsgs : MessageEvent(msg)

SpecGate == Init /\ [][NextGate]_vars

----------------------------------------------------------------------------
\* The phase a combination of the four session flags encodes (spec 4.1; the
\* QR payload is present only in AwaitingScan).
Phase ==
    LET f == <<isConnected, isAuthenticated, isClientReady, lastQrCode # NULL>>
    IN  CASE f = <<FALSE, FALSE, FALSE, FALSE>> -> "Disconnected"
          [] f = <<FALSE, FALSE, FALSE, TRUE>>  -> "AwaitingScan"
          [] f = <<FALSE, TRUE, FALSE, FALSE>>  -> "AuthenticatedPendingReady"
          [] f = <<TRUE, TRUE, TRUE, FALSE>>    -> "Ready"
          [] OTHER -> "Undefined"

\* C1: the session flags always encode one of the four phases of the
\* transition table, and after a handled signal they encode the phase the
\* table gives for it (for qr: once its rendering has stored the QR code).
C1_FlagsEncodeTablePhase ==
    /\ Phase # "Undefined"
    /\ lastHandled = "authenticated" => Phase = "AuthenticatedPendingReady"
    /\ lastHandled = "ready" => Phase = "Ready"
    /\ lastHandled \in {"auth_failure", "disconnected"} => Phase = "Disconnected"
    /\ (lastHandled = "qr" /\ qrPending = 0 /\ lastQrCode # NULL)
          => Phase = "AwaitingScan"

\* C2: every expiry of the readiness watchdog (a ready signal would have
\* cancelled it, so none was handled since the authenticated signal that armed
\* it) starts a teardown of the client.
C2_WatchdogExpiryTearsDown ==
    [][(\E t \in timeouts : FireWatchdog(t))
         => teardown'[<<"watchdog", "destroy1">>]
              = teardown[<<"watchdog", "destroy1">>] + 1]_vars

\* C3: once a ready, qr, auth_failure or disconnected signal or a manual
\* disconnect / clear-session command has been handled, no watchdog timer is
\* pending.
C3_WatchdogDisarmedOutsidePending ==
    lastHandled \in {"ready", "qr", "auth_failure", "disconnected",
                     "disconnect", "clear-session"}
        => timeouts = {}

\* C4: at most one readiness watchdog timer is pending, it is the one
\* connectionTimeout refers to, and right after an authenticated signal
\* (repeated or not) exactly one is pending.
C4_AtMostOneWatchdog ==
    /\ Cardinality(timeouts) <= 1
    /\ timeouts \subseteq {connectionTimeout}
    /\ lastHandled = "authenticated" => Cardinality(timeouts) = 1

\* C4 witness: two authenticated signals in a row, one watchdog pending.
C4_Witness ==
    /\ lastHandled = "authenticated"
    /\ repeated
    /\ timeouts = {connectionTimeout}

\* C5: the disconnected handler never has two reconnect timers pending, and
\* while reconnecting is set exactly one is pending: a burst of disconnected
\* signals inside one backoff window leads to one initialize() call.
C5_NoSecondReconnect ==
    /\ initTimers["reconnect"] <= 1
    /\ reconnecting => initTimers["reconnect"] = 1

\* C5 witness: two disconnected signals in a row with the reconnect timer of
\* the burst still pending.
C5_Witness ==
    /\ lastHandled = "disconnected"
    /\ repeated
    /\ reconnecting
    /\ initTimers["reconnect"] = 1

\* C6: at most one recurring roster-sync timer is active.
C6_AtMostOneSyncTimer == Cardinality(intervals) <= 1

\* C7: after a disconnected signal and until the next signal is handled, no
\* recurring roster-sync timer and no readiness watchdog is active.
C7_NoTimersAfterDisconnected ==
    lastHandled = "disconnected" => (intervals = {} /\ timeouts = {})

\* C8: the auth_failure handler leaves the three flags false, lastQrCode
\* null, no watchdog and no recurring sync timer active, and schedules no
\* initialize().
C8_AuthFailureClearsAll ==
    [][OnAuthFailure =>
         /\ ~isConnected' /\ ~isAuthenticated' /\ ~isClientReady'
         /\ lastQrCode' = NULL
         /\ timeouts' = {}
         /\ intervals' = {}
         /\ initTimers' = initTimers]_vars

\* C9: once the watchdog recovery has torn the client down (its restart
\* timer is scheduled), the status query reports authenticated: false and
\* connected: false.
C9_RecoveryResetsStatus ==
    initTimers["recovery"] > 0
        => (Status.authenticated = FALSE /\ Status.connected = FALSE)

\* C10: the step that completes a manual command's successful destroy resets
\* all session flags, leaves no watchdog and no recurring sync timer active
\* and schedules exactly one initialize(); no other step schedules a restart.
C10_CommandResetsThenSchedules ==
    /\ [][(\E w \in Commands, s \in Stages : DestroyOk(w, s)) =>
            /\ ~isConnected' /\ ~isAuthenticated' /\ ~isClientReady'
            /\ lastQrCode' = NULL
            /\ timeouts' = {}
            /\ intervals' = {}
            /\ initTimers'["restart"] = initTimers["restart"] + 1]_vars
    /\ [][initTimers'["restart"] > initTimers["restart"]
            => \E w \in Commands, s \in Stages : DestroyOk(w, s)]_vars

\* C11: a safeDestroy call goes through its stages in order (the 2 s wait only
\* after a failed first destroy, the second destroy only after the wait) and
\* ends with the second destroy: destroy runs at most twice, the retry once.
\* When the retry of a manual command fails, the command answers with an
\* error, leaves the session flags as they were and schedules no initialize().
C11_RetryOnceThenPropagate ==
    /\ [][\A w \in Who :
            /\ teardown'[<<w, "wait">>] > teardown[<<w, "wait">>]
                 => teardown'[<<w, "destroy1">>] < teardown[<<w, "destroy1">>]
            /\ teardown'[<<w, "destroy2">>] > teardown[<<w, "destroy2">>]
                 => teardown'[<<w, "wait">>] < teardown[<<w, "wait">>]
            /\ teardown'[<<w, "destroy2">>] < teardown[<<w, "destroy2">>]
                 => InFlight(w)' = InFlight(w) - 1]_vars
    /\ [][\A w \in Commands : RetryFailed(w) =>
            /\ lastHandled' = Failed(w)
            /\ UNCHANGED flagVars
            /\ initTimers' = initTimers
            /\ InFlight(w)' = InFlight(w) - 1]_vars

\* C11 witness: a command issued in Ready has answered with an error after
\* both destroy attempts failed; the session still reads Ready and no
\* initialize() is pending.
C11_Witness ==
    /\ lastHandled = "error"
    /\ isConnected /\ isClientReady /\ isAuthenticated
    /\ ClientSettled

\* C12: once a clear-session command has completed and the client it
\* re-initialized has emitted a fresh qr signal (with no rendering left to call
\* back), the session is in AwaitingScan with a QR payload and the status
\* query reports connected: false, hasQR: true.
C12_ClearSessionThenQr ==
    (lastHandled = "clear-session" /\ dropped = "qr" /\ qrPending = 0)
        => /\ Phase = "AwaitingScan"
           /\ lastQrCode # NULL
           /\ Status.connected = FALSE
           /\ Status.hasQR = TRUE

\* C13: completing a disconnect command while the delayed initialize() of the
\* disconnect command handled just before it is still pending changes neither
\* the session flags nor the pending timers nor the number of pending
\* initialize() calls.
C13_DisconnectIdempotent ==
    [][(/\ lastHandled = "disconnect"
        /\ initTimers["restart"] > 0
        /\ \E s \in Stages : DestroyOk("disconnect", s))
         => /\ UNCHANGED flagVars
            /\ UNCHANGED timerVars
            /\ initTimers' = initTimers]_vars

\* A text of whitespace only (the empty one included), and the messages the
\* relay is to forward: not self-originated, and media or text that is not
\* blank (spec 4.2).
Blank(text) == \A i \in 1..Len(text) : text[i] \in Whitespace

Relayable(msg) == ~msg.fromMe /\ (msg.hasMedia \/ ~Blank(msg.body))

\* C14: every message handed to the relay that is not self-originated and is
\* media or text that is not blank has exactly one webhook POST; its
\* sender_number is the message's sender id and its message_body is the body
\* without its leading and trailing whitespace (for media: a label).
C14_ExactlyOnePost ==
    \A p \in processed :
        Relayable(p.msg) =>
            \E i \in 1..Len(calls) :
                /\ calls[i].msg = p.msg
                /\ \A j \in 1..Len(calls) : calls[j].msg = p.msg => j = i
                /\ calls[i].post.sender_number = p.msg.from
                /\ LET body == p.msg.body
                       sent == calls[i].post.message_body
                   IN  IF p.msg.hasMedia
                         THEN sent \notin Texts
                         ELSE /\ ~(sent[1] \in Whitespace)
                              /\ ~(sent[Len(sent)] \in Whitespace)
                              /\ \E a \in 0..Len(body) :
                                   /\ sent = SubSeq(body, a + 1, a + Len(sent))
                                   /\ Blank(SubSeq(body, 1, a))
                                   /\ Blank(SubSeq(body, a + Len(sent) + 1,
                                                   Len(body)))

\* C15: no webhook POST is ever made for a message with fromMe true, whether
\* the live handler or the unread drain handed it to the relay and whether it
\* is media or text.
C15_NoPostForOwn ==
    \A i \in 1..Len(calls) : calls[i].msg.fromMe = FALSE

\* C15 witness: the relay has been handed a self-originated media message by
\* the live handler and a self-originated text message by the drain.
C15_Witness ==
    \E p \in processed, q \in processed :
        /\ p.msg.fromMe /\ p.via = "live" /\ p.msg.hasMedia
        /\ q.msg.fromMe /\ q.via = "drain" /\ ~q.msg.hasMedia

\* C16: a message that is not media and whose body is empty or whitespace
\* only has no webhook POST.
C16_NoPostForBlankText ==
    \A p \in processed :
        (~p.msg.hasMedia /\ Blank(p.msg.body))
            => \A i \in 1..Len(calls) : calls[i].msg # p.msg

\* C16 witness: the relay has been handed an incoming text message of two or
\* more whitespace characters, and made no POST.
C16_Witness ==
    /\ calls = <<>>
    /\ \E p \in processed :
         /\ ~p.msg.fromMe /\ ~p.msg.hasMedia
         /\ Len(p.msg.body) >= 2
         /\ Blank(p.msg.body)

\* C17: the message_body of every POST for a media message is the label of
\* the message's type (Image, Audio, Vidéo, Document, Voice Message, Sticker;
\* Other media for every other type) and differs from the message's own body.
C17_MediaLabel ==
    \A i \in 1..Len(calls) :
        calls[i].msg.hasMedia =>
            LET type == calls[i].msg.type
                sent == calls[i].post.message_body
            IN  /\ sent = CASE type = "image" -> <<"Image">>
                            [] type = "audio" -> <<"Audio">>
                            [] type = "video" -> <<"Vidéo">>
                            [] type = "document" -> <<"Document">>
                            [] type = "ptt" -> <<"Voice Message">>
                            [] type = "sticker" -> <<"Sticker">>
                            [] OTHER -> <<"Other media">>
                /\ sent # calls[i].msg.body

\* C17 witness: a POST for a media message of a type without a label of its
\* own, with a caption.
C17_Witness ==
    \E i \in 1..Len(calls) :
        /\ calls[i].msg.hasMedia
        /\ calls[i].msg.type = "location"
        /\ ~Blank(calls[i].msg.body)
        /\ calls[i].post.message_body = <<"Other media">>

\* C18 as stated: when the drain calls sendSeen on a chat listed with
\* unread counter N, it has made exactly N webhook POSTs for that chat.
C18_DrainPostsUnreadCount ==
    \A i \in 1..Len(seen) :
        Cardinality({j \in 1..Len(calls) :
                        calls[j].via = "drain" /\ calls[j].chat = seen[i].id})
            = seen[i].unreadCount

\* C18: when the drain calls sendSeen on a chat listed with unread counter N,
\* it has handed exactly N messages of that chat to the relay, and has made
\* one webhook POST for each of them that is relayable and none for the
\* others.
C18_DrainRelaysUnreadCount ==
    \A i \in 1..Len(seen) :
        LET handed == {p \in processed :
                          p.via = "drain" /\ p.chat = seen[i].id}
            posts == {j \in 1..Len(calls) :
                         calls[j].via = "drain" /\ calls[j].chat = seen[i].id}
        IN  /\ Cardinality(handed) = seen[i].unreadCount
            /\ Cardinality(posts) = Cardinality({p \in handed : Relayable(p.msg)})
            /\ \A p \in handed :
                 Cardinality({j \in posts : calls[j].msg = p.msg})
                     = IF Relayable(p.msg) THEN 1 ELSE 0

\* C18 witness: sendSeen called on a chat listed with two unread messages,
\* one of them relayable.
C18_Witness ==
    \E i \in 1..Len(seen) :
        /\ seen[i].unreadCount = 2
        /\ Cardinality({j \in 1..Len(calls) :
                           calls[j].via = "drain" /\ calls[j].chat = seen[i].id})
              = 1

\* C19: the drain hands to the relay only messages of chats that are not
\* groups, calls sendSeen only on chats that are not groups and were listed
\* with a positive unread counter, and touches no chat listed with unread
\* counter 0.
C19_DrainSkipsGroups ==
    /\ \A p \in processed : p.via = "drain" => ~chats[p.chat].isGroup
    /\ \A i \in 1..Len(seen) : ~seen[i].isGroup /\ seen[i].unreadCount > 0
    /\ drain \in {"fetchMessages", "post", "sendSeen"}
          => ~Head(listing).isGroup /\ Head(listing).unreadCount > 0

\* C20: within the ready cycle no message has two webhook POSTs.
C20_NoDoubleRelay ==
    \A i \in 1..Len(calls), j \in 1..Len(calls) :
        calls[i].msg.id = calls[j].msg.id => i = j

\* C21: once the POST for a message has failed no further POST is made for
\* that message; a failed POST of the drain raises nothing: the drain goes on
\* with the next message to relay, or calls sendSeen on the chat when it was
\* the last.
C21_FailedPostIsDropped ==
    /\ [][Len(calls') > Len(calls) =>
            \A i \in 1..Len(calls) :
                calls[i].failed => calls'[Len(calls')].msg # calls[i].msg]_vars
    /\ [][PostDone(FALSE) =>
            \/ drain' = "post" /\ Len(calls') = Len(calls) + 1
            \/ drain' = "sendSeen" /\ seen' = Append(seen, Head(listing))]_vars

\* C22: a roster sync whose listing holds no chat that is not a group (no chat
\* at all, or groups only) issues no backend call.
C22_NoCallWithoutContact ==
    (/\ sync.stage \in {"post", "done"}
     /\ \A i \in DOMAIN sync.listing : sync.listing[i].isGroup)
        => sync.posts = <<>>

C22_Witness ==
    /\ sync.stage = "done"
    /\ ~sync.failed
    /\ sync.listing # <<>>
    /\ \A i \in DOMAIN sync.listing : sync.listing[i].isGroup
    /\ sync.posts = <<>>

\* C23: a roster sync whose listing holds a chat that is not a group issues
\* exactly one backend call; its payload has one record {number, direction
\* "sync"} per non-group chat of that listing, in listing order, and none for a
\* group.
C23_OneCallWithEveryContact ==
    LET l == sync.listing
        direct(n) == {i \in 1..n : ~l[i].isGroup}
    IN  (/\ sync.stage \in {"post", "done"}
         /\ direct(Len(l)) # {})
            => /\ Len(sync.posts) = 1
               /\ Len(sync.posts[1]) = Cardinality(direct(Len(l)))
               /\ \A i \in direct(Len(l)) :
                     sync.posts[1][Cardinality(direct(i))]
                        = [number |-> l[i].id.user, direction |-> "sync"]

C23_Witness ==
    /\ sync.stage = "done"
    /\ Len(sync.listing) = 2
    /\ sync.listing[1].isGroup
    /\ ~sync.listing[2].isGroup
    /\ sync.posts = <<(<<[number |-> sync.listing[2].id.user,
                          direction |-> "sync"]>>)>>

\* C24: whenever the phase is not Ready the manual roster-sync trigger is
\* rejected as not ready, and lists no chat and calls no backend.
C24_TriggerRejectedUnlessReady ==
    [][(Phase # "Ready" /\ SyncTrigger)
          => (trigger' = "not-ready" /\ sync' = sync)]_vars

\* The broadcast request of the example: recipients "0612345678" and
\* "+212612345678@c.us", message "Hi"
ExampleBroadcast ==
    [message |-> <<"Hi">>,
     contacts |->
        [isArray |-> TRUE,
         items |->
            << <<"0", "6", "1", "2", "3", "4", "5", "6", "7", "8">>,
               <<"+", "2", "1", "2", "6", "1", "2", "3", "4", "5", "6", "7",
                 "8", "@", "c", ".", "u", "s">> >>]]

\* An address in canonical form: digits only, then "@c.us"
Canonical(phone) ==
    /\ Len(phone) > Len(Suffix)
    /\ SubSeq(phone, Len(phone) - Len(Suffix) + 1, Len(phone)) = Suffix
    /\ \A i \in 1..(Len(phone) - Len(Suffix)) : phone[i] \in Digits

Accepted == broadcast.stage = "sending" \/ broadcast.response.status = 200

\* C26: a broadcast over n recipients makes its attempts one per recipient in
\* input order, the i-th to the address of the i-th recipient; only the last
\* attempt made can be pending, and while the request is unanswered it is
\* pending; the answer is given with exactly n attempts made, all settled,
\* whichever of them failed.
C26_SequentialSends ==
    Accepted =>
        LET n == broadcast.request.contacts.items
            a == broadcast.attempts
        IN  /\ Len(a) <= Len(n)
            /\ \A i \in 1..Len(a) : a[i].to = phoneOf(n[i])
            /\ \A i \in 1..(Len(a) - 1) : a[i].outcome # "pending"
            /\ broadcast.stage = "sending"
                  => Len(a) >= 1 /\ a[Len(a)].outcome = "pending"
            /\ broadcast.stage = "answered"
                  => Len(a) = Len(n) /\ a[Len(a)].outcome # "pending"

C26_Witness ==
    /\ broadcast.response.status = 200
    /\ Len(broadcast.request.contacts.items) = 2
    /\ Len(broadcast.attempts) = 2
    /\ broadcast.attempts[1].outcome = "error"
    /\ broadcast.attempts[2].outcome = "error"

\* C27: the answer of an accepted broadcast partitions the recipients: sent
\* holds, in input order, the raw identifiers of the occurrences whose send
\* succeeded, failed those of the others; sentCount and failedCount are the
\* lengths of the two lists and add up to the number of recipients.
C27_ResponseIsPartition ==
    broadcast.response.status = 200 =>
        LET n == broadcast.request.contacts.items
            r == broadcast.response
            with(o, k) == {i \in 1..k : broadcast.attempts[i].outcome = o}
        IN  /\ Len(r.sent) = Cardinality(with("ok", Len(n)))
            /\ Len(r.failed) = Cardinality(with("error", Len(n)))
            /\ \A i \in with("ok", Len(n)) :
                  r.sent[Cardinality(with("ok", i))] = n[i]
            /\ \A i \in with("error", Len(n)) :
                  r.failed[Cardinality(with("error", i))] = n[i]
            /\ r.sentCount = Len(r.sent)
            /\ r.failedCount = Len(r.failed)
            /\ r.sentCount + r.failedCount = Len(n)

C27_Witness ==
    /\ broadcast.response.status = 200
    /\ Len(broadcast.request.contacts.items) = 2
    /\ broadcast.request.contacts.items[1] = broadcast.request.contacts.items[2]
    /\ broadcast.request.contacts.items[1] # phoneOf(broadcast.request.contacts.items[1])
    /\ broadcast.response.sentCount = 1
    /\ broadcast.response.failedCount = 1

\* A request the broadcast must refuse: no message, or one of white space
\* only, or contacts that is not a list with an element
BadBroadcast(body) ==
    \/ "message" \notin DOMAIN body
    \/ Blank(body.message)
    \/ "contacts" \notin DOMAIN body
    \/ ~body.contacts.isArray
    \/ body.contacts.items = <<>>

\* C28: such a request is answered with the client error in the step that
\* receives it, with no send attempted and no session variable changed.
C28_BadBroadcastRejected ==
    [][\A body \in BroadcastBodies :
          (BadBroadcast(body) /\ BroadcastRequest(body))
              => /\ broadcast'.stage = "answered"
                 /\ broadcast'.response.status = 400
                 /\ broadcast'.attempts = <<>>
                 /\ UNCHANGED lifeVars]_vars

C28_Witness ==
    /\ broadcast.stage = "answered"
    /\ broadcast.response.status = 400
    /\ broadcast.attempts = <<>>
    /\ "message" \in DOMAIN broadcast.request
    /\ "contacts" \in DOMAIN broadcast.request
    /\ broadcast.request.message = <<" ">>
    /\ broadcast.request.contacts.isArray
    /\ Len(broadcast.request.contacts.items) = MaxContacts

\* C29: the acknowledgement of the payment-reminder trigger is given while
\* the list is still being fetched and is the same whatever is fetched and
\* however the sends end; the task in the background makes its sends one per
\* fetched entry, in order, and ends with one attempt for each entry whichever
\* of them failed.
C29_ReminderFireAndForget ==
    /\ reminder.stage # "idle"
          => reminder.ack = [status |-> 200,
                             body |-> "Payment reminders triggered"]
    /\ Len(reminder.attempts) <= Len(reminder.entries)
    /\ \A i \in 1..Len(reminder.attempts) :
          /\ reminder.attempts[i].to = Remind(reminder.entries[i]).to
          /\ reminder.attempts[i].message = Remind(reminder.entries[i]).message
    /\ (reminder.stage = "done" /\ ~reminder.fetchFailed)
          => Len(reminder.attempts) = Len(reminder.entries)

C29_Witness ==
    /\ reminder.stage = "done"
    /\ Len(reminder.entries) = MaxEntries
    /\ Len(reminder.attempts) = MaxEntries
    /\ reminder.attempts[1].outcome = "error"
    /\ reminder.attempts[MaxEntries].outcome = "ok"

\* The session state the other components may only read
SessionState ==
    <<isConnected, isAuthenticated, isClientReady, lastQrCode, reconnecting,
      connectionTimeout, syncInterval>>

\* C30: a step of the relay, of the roster sync or its trigger, of the
\* broadcast, of the payment reminders or of a status or diagnostics query
\* leaves the session flags, the QR code, the reconnecting flag and the
\* watchdog and sync-timer handles as they were; a step that changes one of
\* them is a step of the lifecycle.
C30_ServicesReadSessionOnly ==
    /\ [][(RelayStep \/ SyncStep \/ BroadcastStep \/ ReminderStep \/ QueryStep)
             => UNCHANGED SessionState]_vars
    /\ [][SessionState' # SessionState => LifecycleStep]_vars

C30_Witness ==
    /\ query.kind = "status"
    /\ lastQrCode # NULL
    /\ query.answer.qr = lastQrCode
    /\ isClientReady
    /\ syncInterval # NoHandle

\* The POSTs the drain has issued for chat c, as positions in calls
DrainCalls(c) ==
    {i \in 1..Len(calls) : calls[i].via = "drain" /\ calls[i].chat = c}

\* C31: in the unread drain sendSeen is issued for a chat in the step in which
\* the last relay of its fetched messages returns, with no POST of the drain
\* pending or issued then; the POSTs of a chat follow the order of the fetch;
\* every chat the drain has taken a message from is marked seen or is the one
\* chat under way, and the fetch of a chat starts only when the listing or the
\* sendSeen of the chat before it has returned.
C31_DrainIsSequential ==
    /\ [][seen' # seen
             => /\ drain \in {"fetchMessages", "post"}
                /\ Len(calls') = Len(calls)
                /\ fetched' = <<>>]_vars
    /\ [](\A c \in ChatIds : \A i, j \in DrainCalls(c) :
             i < j => calls[i].msg.id < calls[j].msg.id)
    /\ [](\A p \in processed :
             p.via = "drain"
                => \/ \E i \in 1..Len(seen) : seen[i].id = p.chat
                   \/ /\ drain \in {"post"}
                      /\ Head(listing).id = p.chat)
    /\ [][(drain' = "fetchMessages" /\ drain # "fetchMessages")
             => drain \in {"getChats", "sendSeen"}]_vars

C31_Witness ==
    /\ Len(seen) = 1
    /\ drain = "sendSeen"
    /\ Cardinality(DrainCalls(seen[1].id)) = MaxMsgs

\* C32: reconnecting is true exactly when one reconnect timer of the
\* disconnected handler is pending, and never are two pending; the flag
\* returns to false only in the timer's callback, which calls initialize();
\* and, the timer firing when it is pending, a set flag is eventually cleared.
C32_ReconnectCompletes ==
    /\ [](initTimers["reconnect"] <= 1)
    /\ [](reconnecting <=> initTimers["reconnect"] = 1)
    /\ [][(reconnecting /\ ~reconnecting') => FireInit("reconnect")]_vars
    /\ (reconnecting ~> ~reconnecting)

C32_Witness ==
    /\ lastHandled = "disconnected"
    /\ ~reconnecting
    /\ initTimers["reconnect"] = 0

\* C33: at most one delayed initialize() is pending at any time, whichever of
\* the disconnected handler, the two commands and the watchdog recovery
\* scheduled it.
C33_OneDelayedInitialize ==
    initTimers["reconnect"] + initTimers["restart"] + initTimers["recovery"] <= 1

\* C35: while ready is the last signal or command handled, the status query
\* reports connected: true and hasQR: false, whatever QR rendering calls back
\* in the meantime.
C35_LateQrRenderingIgnored ==
    lastHandled = "ready" => (Status.connected /\ ~Status.hasQR)

\* C36: when the client torn down by a command or by the watchdog recovery has
\* been re-initialized and emits ready, the ready handler runs: the status
\* query reports connected: true.
C36_HandlersSurviveTeardown ==
    dropped = "ready" => Status.connected

\* C34: the drain of the ready handler lists, fetches and relays nothing
\* before the initial roster sync has returned; and once that sync has
\* returned, failed or not, the recurring sync is scheduled and the drain is
\* under way or over.
C34_SyncThenDrain ==
    /\ (drain # "none" \/ \E p \in processed : p.via = "drain")
          => sync.stage = "done"
    /\ sync.stage = "done"
          => /\ drain # "none"
             /\ syncInterval # NoHandle
             /\ syncInterval \in intervals

C34_Witness ==
    /\ sync.failed
    /\ sync.posts # <<>>
    /\ syncInterval \in intervals
    /\ drain = "done"
    /\ Len(seen) >= 1
    /\ \E i \in 1..Len(calls) : calls[i].via = "drain"

\* C37: the step in which the listing, a fetch or a sendSeen of the drain
\* fails changes no session flag and no timer; from then on the drain is over:
\* its position in the listing stays, and it hands no further message to the
\* relay, makes no further POST and issues no further sendSeen.
C37_DrainFailureContained ==
    /\ [][(drain' = "failed" /\ drain # "failed")
             => UNCHANGED <<flagVars, timerVars, reconnecting>>]_vars
    /\ [][drain = "failed"
             => /\ drain' = "failed"
                /\ UNCHANGED <<listing, fetched, seen>>
                /\ {q \in processed' : q.via = "drain"}
                      = {q \in processed : q.via = "drain"}
                /\ {i \in 1..Len(calls') : calls'[i].via = "drain"}
                      = {i \in 1..Len(calls) : calls[i].via = "drain"}]_vars

C37_Witness ==
    /\ drain = "failed"
    /\ isConnected /\ isClientReady
    /\ syncInterval \in intervals
    /\ Len(listing) = 2
    /\ listing[2].unreadCount > 0
    /\ \A q \in processed : q.chat # listing[2].id
    /\ \E q \in processed : q.via = "drain"

\* C38: whatever the session flags are when a message event is handled, and
\* whatever they become, the webhook calls made for it are those the relay
\* makes for that message alone: the same call, or the same absence of one.
C38_RelayIgnoresSession ==
    \A p \in processed :
        [i \in 1..Len(calls) |-> calls[i].post]
            = processMessageAndSendToDjango(p.msg)

C38_Witness ==
    /\ lastHandled = "none"
    /\ Phase = "Disconnected"
    /\ Len(calls) = 1

\* C39: the address a broadcast sends to is the digits of the raw identifier,
\* in order, followed by "@c.us" once; and for a raw identifier that is such
\* an address already it is the identifier itself.
C39_NormalizationIdempotent ==
    \A i \in 1..Len(broadcast.attempts) :
        LET raw == broadcast.request.contacts.items[i]
            to == broadcast.attempts[i].to
            digits == {k \in 1..Len(raw) : raw[k] \in Digits}
        IN  /\ Len(to) = Cardinality(digits) + Len(Suffix)
            /\ SubSeq(to, Cardinality(digits) + 1, Len(to)) = Suffix
            /\ \A k \in digits :
                  to[Cardinality({j \in digits : j <= k})] = raw[k]
            /\ (/\ Len(raw) >= Len(Suffix)
                /\ SubSeq(raw, Len(raw) - Len(Suffix) + 1, Len(raw)) = Suffix
                /\ \A k \in 1..(Len(raw) - Len(Suffix)) : raw[k] \in Digits)
                  => to = raw

C39_Witness ==
    /\ broadcast.stage = "answered"
    /\ Len(broadcast.attempts) = 1
    /\ Canonical(broadcast.request.contacts.items[1])
    /\ Len(broadcast.request.contacts.items[1]) = MaxRaw + Len(Suffix)
    /\ broadcast.attempts[1].to = broadcast.request.contacts.items[1]

\* C40: an accepted manual trigger stays unanswered while its sync runs, is
\* answered at the step at which that one sync returns, after at most one
\* POST, and the answer is the completion acknowledgment, whether the chat
\* listing or the POST failed or not.
C40_TriggerAlwaysCompletes ==
    /\ [](trigger = "syncing" => sync.stage \in {"getChats", "post"})
    /\ [][trigger = "syncing" =>
            IF sync'.stage = "done"
            THEN trigger' = "completed" /\ Len(sync'.posts) <= 1
            ELSE trigger' = "syncing"]_vars
    /\ [][(trigger' = "completed" /\ trigger # "completed") =>
            trigger = "syncing"]_vars

C40_Witness ==
    /\ trigger = "completed"
    /\ sync.stage = "done"
    /\ sync.failed
    /\ sync.posts # <<>>

====
